---- MODULE Spec2Model ----
(***************************************************************************)
(* Model of flowy-sys request argument extraction                          *)
(* (rust-lib/flowy-sys/src/request/request.rs).                            *)
(*                                                                         *)
(* A dispatcher holds one EventRequest and separately owned copies of one  *)
(* Payload.  It runs extractors (FromRequest::from_request) one after      *)
(* another and awaits each returned future by polling it.  The typed-data  *)
(* extractor Data<T> is instantiated at T = u8, once for each build        *)
(* (feature "use_serde" on or off).                                        *)
(***************************************************************************)
EXTENDS Integers, Sequences, FiniteSets, TLC

\* ---- bounds ----
MaxLen == 3          \* longest payload byte buffer, one-argument handlers
MaxSeqLen == 2       \* longest payload byte buffer, several arguments
MaxPending == 1      \* most Pending polls a suspending extractor returns
MaxExtractions == 2  \* most arguments a handler takes

\* Bytes a payload is built from: '0', '9', ' ', and 0xC3 0xA9 (the two
\* bytes of U+00E9, each of them invalid UTF-8 on its own).
Alphabet == {48, 57, 32, 195, 169}
Events == {"SignIn", "SignUp"}
Ids == {"id-1"}
Modes == {"use_serde", "custom_codec"}
Copies == {1, 2}

REPLACEMENT_CHARACTER == 65533
U8_MAX == 255

VARIABLES mode, arity, req, payload, req0, payload0, log, parseCalls, cur, prev, n

vars == <<mode, arity, req, payload, req0, payload0, log, parseCalls, cur, prev, n>>

\* ---- data ----
PayloadNone == [tag |-> "None"]
PayloadBytes(b) == [tag |-> "Bytes", buf |-> b]

RECURSIVE SeqsUpTo(_)
SeqsUpTo(k) ==
    IF k = 0 THEN {<<>>}
    ELSE LET S == SeqsUpTo(k - 1) IN
         S \cup {Append(s, a) : s \in {t \in S : Len(t) = k - 1}, a \in Alphabet}

Payloads(maxLen) == {PayloadNone} \cup {PayloadBytes(b) : b \in SeqsUpTo(maxLen)}

EventRequest(event, id) == [id |-> id, event |-> event]

Ok(v) == [ok |-> TRUE, val |-> v]
Err(e) == [ok |-> FALSE, err |-> e]

UnitVal == [ty |-> "Unit"]
StringVal(s) == [ty |-> "String", chars |-> s]
Data(d) == [ty |-> "Data", inner |-> d]
CustomVal == [ty |-> "Custom"]

InternalError(msg) == [kind |-> "Internal", msg |-> msg]

\* ---- futures ----
Pending == [tag |-> "Pending"]
PollReady(v) == [tag |-> "Ready", out |-> v]

ready(v) == [kind |-> "Ready", val |-> v]
SuspendFut(k, v) == [kind |-> "Suspend", remaining |-> k, val |-> v]
Completed == [kind |-> "Completed"]

\* ---- String::from_utf8_lossy ----
IsCont(b) == b >= 128 /\ b <= 191

safe_get(buf, i) == IF i <= Len(buf) THEN buf[i] ELSE 0

utf8_char_width(b) ==
    IF b < 128 THEN 1
    ELSE IF b >= 194 /\ b <= 223 THEN 2
    ELSE IF b >= 224 /\ b <= 239 THEN 3
    ELSE IF b >= 240 /\ b <= 244 THEN 4
    ELSE 0

\* Second byte allowed after the lead byte of a 3- or 4-byte sequence.
SecondOk(b, c) ==
    \/ b = 224 /\ c >= 160 /\ c <= 191
    \/ b >= 225 /\ b <= 236 /\ IsCont(c)
    \/ b = 237 /\ c >= 128 /\ c <= 159
    \/ b >= 238 /\ b <= 239 /\ IsCont(c)
    \/ b = 240 /\ c >= 144 /\ c <= 191
    \/ b >= 241 /\ b <= 243 /\ IsCont(c)
    \/ b = 244 /\ c >= 128 /\ c <= 143

\* One step of the chunk decoder at 1-based index i: the number of bytes it
\* consumes and the character they become.  A malformed or truncated
\* sequence becomes one U+FFFD covering the bytes read before the error.
DecodeAt(buf, i) ==
    LET b == buf[i]
        w == utf8_char_width(b)
        c1 == safe_get(buf, i + 1)
        c2 == safe_get(buf, i + 2)
        c3 == safe_get(buf, i + 3)
        bad(k) == [len |-> k, ch |-> REPLACEMENT_CHARACTER]
    IN  IF w = 1 THEN [len |-> 1, ch |-> b]
        ELSE IF w = 2 THEN
            IF IsCont(c1) THEN [len |-> 2, ch |-> (b - 192) * 64 + (c1 - 128)]
            ELSE bad(1)
        ELSE IF w = 3 THEN
            IF ~SecondOk(b, c1) THEN bad(1)
            ELSE IF ~IsCont(c2) THEN bad(2)
            ELSE [len |-> 3, ch |-> (b - 224) * 4096 + (c1 - 128) * 64 + (c2 - 128)]
        ELSE IF w = 4 THEN
            IF ~SecondOk(b, c1) THEN bad(1)
            ELSE IF ~IsCont(c2) THEN bad(2)
            ELSE IF ~IsCont(c3) THEN bad(3)
            ELSE [len |-> 4,
                  ch |-> (b - 240) * 262144 + (c1 - 128) * 4096
                         + (c2 - 128) * 64 + (c3 - 128)]
        ELSE bad(1)

RECURSIVE LossyFrom(_, _)
LossyFrom(buf, i) ==
    IF i > Len(buf) THEN <<>>
    ELSE LET d == DecodeAt(buf, i) IN <<d.ch>> \o LossyFrom(buf, i + d.len)

from_utf8_lossy(buf) == LossyFrom(buf, 1)

\* ---- serde_json::from_str::<u8> ----
IsWs(c) == c \in {32, 10, 9, 13}
IsDigit(c) == c >= 48 /\ c <= 57

RECURSIVE parse_whitespace(_, _)
parse_whitespace(s, i) ==
    IF i <= Len(s) /\ IsWs(s[i]) THEN parse_whitespace(s, i + 1) ELSE i

RECURSIVE ParseDigits(_, _, _)
ParseDigits(s, i, acc) ==
    IF i <= Len(s) /\ IsDigit(s[i])
    THEN ParseDigits(s, i + 1, acc * 10 + (s[i] - 48))
    ELSE [pos |-> i, significand |-> acc]

\* Deserializer::parse_integer at a digit: a leading zero may not be
\* followed by another digit.
parse_integer(s, i) ==
    IF s[i] = 48
    THEN IF i + 1 <= Len(s) /\ IsDigit(s[i + 1])
         THEN Err("InvalidNumber")
         ELSE Ok([pos |-> i + 1, significand |-> 0])
    ELSE Ok(ParseDigits(s, i + 1, s[i] - 48))

\* deserialize_u8 followed by Deserializer::end.  The result is Ok(value)
\* or Err(code), code naming the parser's ErrorCode.  A fraction or an
\* exponent makes the number a float, which the u8 visitor rejects.
from_str(s) ==
    LET i == parse_whitespace(s, 1) IN
    IF i > Len(s) THEN Err("EofWhileParsingValue")
    ELSE IF ~IsDigit(s[i]) THEN Err("ExpectedSomeValue")
    ELSE LET p == parse_integer(s, i) IN
         IF ~p.ok THEN p
         ELSE LET j == p.val.pos
                  v == p.val.significand
              IN  IF j <= Len(s) /\ s[j] \in {46, 69, 101} THEN Err("InvalidType")
                  ELSE IF v > U8_MAX THEN Err("InvalidValue")
                  ELSE IF parse_whitespace(s, j) <= Len(s)
                       THEN Err("TrailingCharacters")
                  ELSE Ok(v)

\* ---- FromBytes for u8: the one-byte codec ----
parse_from_bytes(bytes) ==
    IF Len(bytes) = 1 THEN Ok(bytes[1])
    ELSE Err(InternalError("InvalidLength"))

\* ---- extractors ----
\* What one call of from_request does: the future it returns (or that it
\* panicked instead of returning), the payload it leaves behind, the
\* warnings it logged and how often it called T::parse_from_bytes.
Returned(fut, pl, warns, parses) ==
    [panicked |-> FALSE, fut |-> fut, payload |-> pl, warns |-> warns, parses |-> parses]
Panicked(pl, warns, parses) ==
    [panicked |-> TRUE, fut |-> Completed, payload |-> pl, warns |-> warns, parses |-> parses]

\* Variant: the error message counts the warnings logged so far.
unexpected_none_payload_counting(request) ==
    [warns |-> <<[level |-> "warn", event |-> request.event]>>,
     err |-> InternalError(IF Len(log) = 0 THEN "Expected payload"
                           ELSE "Expected payload (repeated)")]

\* Variant: the error is built without logging the warning.
unexpected_none_payload_silent(request) ==
    [warns |-> <<>>, err |-> InternalError("Expected payload")]

unexpected_none_payload(request) ==
    [warns |-> <<[level |-> "warn", event |-> request.event]>>,
     err |-> InternalError("Expected payload")]

\* Variant: the unit extractor insists on a payload.
UnitFromRequestStrict(request, pl) ==
    IF pl.tag = "None"
    THEN LET e == unexpected_none_payload(request)
         IN  Returned(ready(Err(e.err)), pl, e.warns, 0)
    ELSE Returned(ready(Ok(UnitVal)), pl, <<>>, 0)

UnitFromRequest(request, pl) == Returned(ready(Ok(UnitVal)), pl, <<>>, 0)

\* Variant: String::from_utf8 instead of from_utf8_lossy, so that any
\* replaced byte sequence is an error.
StringFromRequestStrict(request, pl) ==
    IF pl.tag = "None"
    THEN LET e == unexpected_none_payload(request)
         IN  Returned(ready(Err(e.err)), pl, e.warns, 0)
    ELSE IF \E i \in 1..Len(from_utf8_lossy(pl.buf)) :
                from_utf8_lossy(pl.buf)[i] = REPLACEMENT_CHARACTER
         THEN Returned(ready(Err(InternalError("FromUtf8Error"))), pl, <<>>, 0)
         ELSE Returned(ready(Ok(StringVal(from_utf8_lossy(pl.buf)))), pl, <<>>, 0)

\* Variant: the buffer is moved out of the payload (std::mem::take).
StringFromRequestTake(request, pl) ==
    IF pl.tag = "None"
    THEN LET e == unexpected_none_payload(request)
         IN  Returned(ready(Err(e.err)), pl, e.warns, 0)
    ELSE Returned(ready(Ok(StringVal(from_utf8_lossy(pl.buf)))), PayloadNone, <<>>, 0)

StringFromRequest(request, pl) ==
    IF pl.tag = "None"
    THEN LET e == unexpected_none_payload(request)
         IN  Returned(ready(Err(e.err)), pl, e.warns, 0)
    ELSE Returned(ready(Ok(StringVal(from_utf8_lossy(pl.buf)))), pl, <<>>, 0)

\* Variant: a parse failure is reported as a missing payload.
DataFromRequestSerdeConflated(request, pl) ==
    IF pl.tag = "None"
    THEN LET e == unexpected_none_payload(request)
         IN  Returned(ready(Err(e.err)), pl, e.warns, 0)
    ELSE LET r == from_str(from_utf8_lossy(pl.buf))
         IN  IF r.ok THEN Returned(ready(Ok(Data(r.val))), pl, <<>>, 0)
             ELSE LET e == unexpected_none_payload(request)
                  IN  Returned(ready(Err(e.err)), pl, e.warns, 0)

\* Data<T>, feature "use_serde".
DataFromRequestSerde(request, pl) ==
    IF pl.tag = "None"
    THEN LET e == unexpected_none_payload(request)
         IN  Returned(ready(Err(e.err)), pl, e.warns, 0)
    ELSE LET s == from_utf8_lossy(pl.buf)
             r == from_str(s)
         IN  IF r.ok THEN Returned(ready(Ok(Data(r.val))), pl, <<>>, 0)
             ELSE Returned(ready(Err(InternalError(r.err))), pl, <<>>, 0)

\* Data<T>, feature "use_serde" off: the parse result is unwrapped.
DataFromRequestCodec(request, pl) ==
    IF pl.tag = "None"
    THEN LET e == unexpected_none_payload(request)
         IN  Returned(ready(Err(e.err)), pl, e.warns, 0)
    ELSE LET r == parse_from_bytes(pl.buf)
         IN  IF r.ok THEN Returned(ready(Ok(Data(r.val))), pl, <<>>, 1)
             ELSE Panicked(pl, <<>>, 1)

DataFromRequest(m, request, pl) ==
    IF m = "use_serde" THEN DataFromRequestSerde(request, pl)
    ELSE DataFromRequestCodec(request, pl)

\* An extractor outside this file whose future suspends: it returns
\* Pending k times and then resolves, to a failure when the payload is
\* empty and to a success otherwise.
SuspendFromRequest(request, pl, k) ==
    Returned(SuspendFut(k, IF pl.tag = "None" THEN Err(InternalError("Custom"))
                           ELSE Ok(CustomVal)),
             pl, <<>>, 0)

FromRequestFuture(f) == [kind |-> "FromRequestFuture", fut |-> f]

\* Result<T, T::Error>: wraps the future of T's own extraction.
ResultFromRequest(inner) ==
    IF inner.panicked THEN inner
    ELSE [inner EXCEPT !.fut = FromRequestFuture(inner.fut)]

\* ---- polling ----
\* Each poll gives the Poll value and the future as the poll leaves it.
ReadyPoll(f) == [poll |-> PollReady(f.val), fut |-> Completed]

SuspendPoll(f) ==
    IF f.remaining > 0
    THEN [poll |-> Pending, fut |-> [f EXCEPT !.remaining = @ - 1]]
    ELSE [poll |-> PollReady(f.val), fut |-> Completed]

InnerPoll(f) == IF f.kind = "Ready" THEN ReadyPoll(f) ELSE SuspendPoll(f)

\* Variant: the inner result is passed through, a failure of the inner
\* extraction becoming the failure of the adapted one.
FromRequestFuturePollFlatten(f) ==
    LET p == InnerPoll(f.fut)
    IN  IF p.poll.tag = "Pending"
        THEN [poll |-> Pending, fut |-> FromRequestFuture(p.fut)]
        ELSE [poll |-> PollReady(IF p.poll.out.ok THEN Ok(p.poll.out) ELSE p.poll.out),
              fut |-> FromRequestFuture(p.fut)]

\* Variant: without ready!, a pending inner poll is wrapped as well.
FromRequestFuturePollEager(f) ==
    LET p == InnerPoll(f.fut)
    IN  [poll |-> PollReady(Ok(IF p.poll.tag = "Pending" THEN Err(InternalError("Pending"))
                                ELSE p.poll.out)),
         fut |-> FromRequestFuture(p.fut)]

FromRequestFuturePoll(f) ==
    LET p == InnerPoll(f.fut)
    IN  IF p.poll.tag = "Pending"
        THEN [poll |-> Pending, fut |-> FromRequestFuture(p.fut)]
        ELSE [poll |-> PollReady(Ok(p.poll.out)), fut |-> FromRequestFuture(p.fut)]

\* ---- the dispatcher ----
BuiltIn == {"Unit", "String", "Data"}

NoExtraction ==
    [status |-> "idle", ext |-> "none", adapted |-> FALSE, copy |-> 1,
     fut |-> Completed, polled |-> FALSE, lastInner |-> Pending,
     lastOuter |-> Pending, pre |-> PayloadNone, logBefore |-> 0,
     parsesBefore |-> 0, warned |-> <<>>]

NoPrev == [ext |-> "none", adapted |-> FALSE, copy |-> 1, out |-> Pending]

\* One dispatched call: the build's decoding mode, the request, the
\* dispatcher's copies of the payload, and the number of arguments the
\* handler takes (one extraction each).
InitWith(payloads, arities) ==
    /\ mode \in Modes
    /\ arity \in arities
    /\ req \in {EventRequest(e, i) : e \in Events, i \in Ids}
    /\ \E pl \in payloads : payload = [c \in Copies |-> pl]
    /\ req0 = req
    /\ payload0 = payload
    /\ log = <<>>
    /\ parseCalls = 0
    /\ cur = NoExtraction
    /\ prev = NoPrev
    /\ n = 0

\* A one-argument handler, any payload.
Init == InitWith(Payloads(MaxLen), {1})

\* A handler of several arguments, short payloads.
SeqInit == InitWith(Payloads(MaxSeqLen), {MaxExtractions})

\* The dispatcher calls an extractor's from_request on one of its copies
\* of the payload, after the previous extraction has resolved.  prev keeps
\* the outcome of that previous extraction when this one repeats it (same
\* extractor), to compare the two runs.
Begin(ext, adapted, c, base) ==
    LET eff == IF adapted THEN ResultFromRequest(base) ELSE base
    IN  /\ cur.status \in {"idle", "resolved"}
        /\ n < arity
        /\ n' = n + 1
        /\ cur' = [status |-> IF eff.panicked THEN "panicked" ELSE "polling",
                   ext |-> ext, adapted |-> adapted, copy |-> c,
                   fut |-> eff.fut, polled |-> FALSE,
                   lastInner |-> Pending, lastOuter |-> Pending,
                   pre |-> payload[c], logBefore |-> Len(log),
                   parsesBefore |-> parseCalls, warned |-> eff.warns]
        /\ prev' = IF cur.status = "resolved" /\ cur.ext = ext /\ cur.adapted = adapted
                   THEN [ext |-> cur.ext, adapted |-> cur.adapted,
                         copy |-> cur.copy, out |-> cur.lastOuter]
                   ELSE NoPrev
        /\ payload' = [payload EXCEPT ![c] = eff.payload]
        /\ log' = log \o eff.warns
        /\ parseCalls' = parseCalls + eff.parses
        /\ UNCHANGED <<mode, arity, req, req0, payload0>>

ExtractUnit(adapted, c) ==
    Begin("Unit", adapted, c, UnitFromRequest(req, payload[c]))

ExtractString(adapted, c) ==
    Begin("String", adapted, c, StringFromRequest(req, payload[c]))

ExtractData(adapted, c) ==
    Begin("Data", adapted, c, DataFromRequest(mode, req, payload[c]))

ExtractSuspend(adapted, c, k) ==
    Begin("Suspend", adapted, c, SuspendFromRequest(req, payload[c], k))

\* The dispatcher awaits the future: one poll.
PollStep ==
    /\ cur.status = "polling"
    /\ LET inner == IF cur.adapted THEN InnerPoll(cur.fut.fut) ELSE InnerPoll(cur.fut)
           outer == IF cur.adapted THEN FromRequestFuturePoll(cur.fut) ELSE inner
       IN  cur' = [cur EXCEPT !.fut = outer.fut, !.polled = TRUE,
                              !.lastInner = inner.poll, !.lastOuter = outer.poll,
                              !.status = IF outer.poll.tag = "Ready"
                                         THEN "resolved" ELSE "polling"]
    /\ UNCHANGED <<mode, arity, req, payload, req0, payload0, log, parseCalls, prev, n>>

Next ==
    \/ \E a \in BOOLEAN, c \in Copies : ExtractUnit(a, c)
    \/ \E a \in BOOLEAN, c \in Copies : ExtractString(a, c)
    \/ \E a \in BOOLEAN, c \in Copies : ExtractData(a, c)
    \/ \E a \in BOOLEAN, c \in Copies, k \in 0..MaxPending :
          ExtractSuspend(a, c, k)
    \/ PollStep

Spec == Init /\ [][Next]_vars

SeqSpec == SeqInit /\ [][Next]_vars

\* The dispatcher awaits every future it obtained: it keeps polling.
FairSpec == Init /\ [][Next]_vars /\ WF_vars(PollStep)

\* ---- properties ----
Started == cur.status # "idle"
Resolved == cur.status = "resolved"
Plain(ext) == Started /\ cur.ext = ext /\ ~cur.adapted
MissingPayload == Err(InternalError("Expected payload"))

\* What the extractor T itself produces for the request and the payload the
\* current extraction was given.
OwnResult ==
    IF cur.ext = "Unit" THEN UnitFromRequest(req0, cur.pre).fut.val
    ELSE IF cur.ext = "String" THEN StringFromRequest(req0, cur.pre).fut.val
    ELSE IF cur.ext = "Data" THEN DataFromRequest(mode, req0, cur.pre).fut.val
    ELSE SuspendFromRequest(req0, cur.pre, 0).fut.val

\* C1: a resolved Result<T, T::Error> extraction is never an outer failure;
\* its output is Ok(r), r being exactly what T's own future resolved to,
\* which is T's own result for the same request and payload.
C1_ResultNeverFails ==
    (Started /\ cur.adapted /\ Resolved) =>
        /\ cur.lastOuter.tag = "Ready"
        /\ cur.lastOuter.out.ok
        /\ cur.lastInner.tag = "Ready"
        /\ cur.lastOuter.out = Ok(cur.lastInner.out)
        /\ cur.lastInner.out = OwnResult

\* Scenario: empty payload, result-adapted text: success(failure(missing)).
C1_Witness ==
    /\ cur.ext = "String" /\ cur.adapted /\ Resolved
    /\ cur.pre = PayloadNone
    /\ cur.lastOuter = PollReady(Ok(MissingPayload))

AllAscii(buf) == \A i \in 1..Len(buf) : buf[i] < 128

\* C2: text extraction fails exactly on the empty payload, with the
\* missing-payload error; on bytes it succeeds with their lossy decoding:
\* the bytes themselves when they are ASCII, and otherwise characters that
\* are ASCII bytes of the buffer, decoded two-byte characters or U+FFFD.
C2_TextFailsIffNone ==
    Plain("String") =>
        /\ cur.status # "panicked"
        /\ cur.polled => Resolved
        /\ Resolved =>
            /\ ~cur.lastOuter.out.ok <=> cur.pre.tag = "None"
            /\ cur.pre.tag = "None" => cur.lastOuter.out = MissingPayload
            /\ cur.pre.tag = "Bytes" =>
                LET r == cur.lastOuter.out IN
                /\ r = Ok(StringVal(from_utf8_lossy(cur.pre.buf)))
                /\ Len(r.val.chars) <= Len(cur.pre.buf)
                /\ AllAscii(cur.pre.buf) => r.val.chars = cur.pre.buf
                /\ ~AllAscii(cur.pre.buf) =>
                      \E i \in 1..Len(r.val.chars) : r.val.chars[i] >= 128
                /\ \A i \in 1..Len(r.val.chars) :
                      \/ r.val.chars[i] = REPLACEMENT_CHARACTER
                      \/ r.val.chars[i] >= 128 /\ r.val.chars[i] < 2048
                      \/ \E j \in 1..Len(cur.pre.buf) : cur.pre.buf[j] = r.val.chars[i]

\* Text extraction of a lone 0xC3 (invalid UTF-8) succeeded with U+FFFD.
C2_Witness ==
    /\ Plain("String") /\ Resolved
    /\ cur.pre = PayloadBytes(<<195>>)
    /\ cur.lastOuter = PollReady(Ok(StringVal(<<REPLACEMENT_CHARACTER>>)))

\* C3: in custom-codec mode, when parse_from_bytes fails on the payload's
\* bytes, Data<T> extraction yields a failure result carrying a SystemError
\* and does not panic.
C3_CodecParseFailureIsAnError ==
    (Plain("Data") /\ mode = "custom_codec" /\ cur.pre.tag = "Bytes"
        /\ ~parse_from_bytes(cur.pre.buf).ok) =>
        /\ cur.status # "panicked"
        /\ Resolved => (~cur.lastOuter.out.ok /\ cur.lastOuter.out.err.kind = "Internal")

\* The canonical decimal numeral of v, as characters.
Decimal(v) ==
    IF v < 10 THEN <<48 + v>>
    ELSE IF v < 100 THEN <<48 + (v \div 10), 48 + (v % 10)>>
    ELSE <<48 + (v \div 100), 48 + ((v \div 10) % 10), 48 + (v % 10)>>

\* buf is a JSON document of type u8 with value v: the numeral of v with
\* optional whitespace around it.
IsDocument(buf, v) ==
    \E i \in 1..(Len(buf) + 1) : \E j \in i..(Len(buf) + 1) :
        /\ \A k \in 1..(i - 1) : IsWs(buf[k])
        /\ \A k \in j..Len(buf) : IsWs(buf[k])
        /\ SubSeq(buf, i, j - 1) = Decimal(v)

DecodeErrors ==
    {InternalError(c) : c \in {"EofWhileParsingValue", "ExpectedSomeValue",
                               "InvalidNumber", "InvalidType", "InvalidValue",
                               "TrailingCharacters"}}

\* C4: in structured-text mode Data<T> extraction has three outcomes: the
\* empty payload fails with the missing-payload error; bytes that are a
\* document of type T succeed with Data of its value; other bytes fail with
\* a decode error, never the missing-payload error, and never by a panic.
C4_SerdeThreeOutcomes ==
    (Plain("Data") /\ mode = "use_serde") =>
        /\ cur.status # "panicked"
        /\ cur.polled => Resolved
        /\ Resolved =>
            LET r == cur.lastOuter.out IN
            /\ cur.pre.tag = "None" => r = MissingPayload
            /\ cur.pre.tag = "Bytes" =>
                /\ \A v \in 0..U8_MAX : IsDocument(cur.pre.buf, v) => r = Ok(Data(v))
                /\ (~\E v \in 0..U8_MAX : IsDocument(cur.pre.buf, v)) =>
                      (~r.ok /\ r.err \in DecodeErrors /\ r # MissingPayload)

\* A number out of T's range was rejected with a decode error.
C4_Witness ==
    /\ Plain("Data") /\ mode = "use_serde" /\ Resolved
    /\ cur.pre = PayloadBytes(<<57, 57, 57>>)
    /\ cur.lastOuter = PollReady(Err(InternalError("InvalidValue")))

\* C5: unit extraction succeeds with the unit value for every request and
\* payload.
C5_UnitAlwaysSucceeds ==
    Plain("Unit") =>
        /\ cur.status # "panicked"
        /\ cur.polled => (Resolved /\ cur.lastOuter = PollReady(Ok(UnitVal)))

C5_Witness ==
    /\ Plain("Unit") /\ Resolved
    /\ cur.pre = PayloadNone
    /\ cur.lastOuter = PollReady(Ok(UnitVal))

\* C6: after any extraction, successful or not, every payload has the
\* variant and bytes it had before and the request is unchanged, so each
\* extraction of a sequence is given the original payload.
C6_PayloadAndRequestUnchanged ==
    Started =>
        /\ payload = payload0
        /\ req = req0
        /\ cur.pre = payload0[cur.copy]

\* A second text extraction ran against the same copy of a byte payload.
C6_Witness ==
    /\ cur.ext = "String" /\ Resolved
    /\ prev.ext = "String" /\ prev.copy = cur.copy
    /\ cur.pre.tag = "Bytes" /\ Len(cur.pre.buf) > 0
    /\ cur.lastOuter.out.ok

C8_BuiltInsResolveOnFirstPoll ==
    (Started /\ cur.ext \in BuiltIn /\ ~cur.adapted) =>
        /\ cur.status # "panicked"
        /\ cur.polled => (Resolved /\ cur.lastOuter.tag = "Ready")

\* C9: on the empty payload the text extractor and the typed-data extractor
\* (either mode) log exactly one warning naming the request's event, before
\* the failure is observed, fail with the "Expected payload" error, and do
\* not call parse_from_bytes.
C9_UniformEmptyPayloadPath ==
    (Started /\ cur.ext \in {"String", "Data"} /\ ~cur.adapted
        /\ cur.pre.tag = "None") =>
        /\ cur.status \in {"polling", "resolved"}
        /\ Len(log) = cur.logBefore + 1
        /\ log[Len(log)] = [level |-> "warn", event |-> req0.event]
        /\ cur.fut \in {ready(MissingPayload), Completed}
        /\ Resolved => cur.lastOuter = PollReady(MissingPayload)
        /\ parseCalls = cur.parsesBefore

C9_Witness ==
    /\ Plain("Data") /\ mode = "custom_codec" /\ Resolved
    /\ cur.pre = PayloadNone
    /\ Len(log) = 1
    /\ cur.lastOuter = PollReady(MissingPayload)

\* C10: a poll of FromRequestFuture is Pending exactly when that poll of
\* the inner future is Pending, and is Ready(Ok(res)) in the poll in which
\* the inner future is Ready(res).
PollMirrorsInner ==
    (Started /\ cur.adapted /\ cur.polled) =>
        /\ cur.lastOuter.tag = "Pending" <=> cur.lastInner.tag = "Pending"
        /\ cur.lastInner.tag = "Ready" =>
              cur.lastOuter = PollReady(Ok(cur.lastInner.out))
        /\ Resolved <=> cur.lastInner.tag = "Ready"

\* Under repeated polling the adapted extraction resolves, as the inner
\* one does.
AdaptedResolves == (cur.adapted /\ cur.status = "polling") ~> Resolved

C10_MirrorsReadiness == []PollMirrorsInner /\ AdaptedResolves

\* The adapted future was polled while the inner future was still pending.
C10_Witness ==
    /\ cur.adapted /\ cur.ext = "Suspend" /\ cur.polled
    /\ cur.lastInner.tag = "Pending" /\ cur.lastOuter.tag = "Pending"
    /\ cur.status = "polling"
====
